---------------------------- MODULE Spec2Model ----------------------------
(***************************************************************************)
(* fnCAD smooth-union tools: tools/smooth_union_table.py (naive against    *)
(* guarded exponential smooth union) and tools/smooth_union_compare.py     *)
(* (five smooth-union formulas behind a radius slider and a method radio). *)
(*                                                                         *)
(* Numbers.  A float is modelled by an exact value:                        *)
(*   - a rational <<n, d>> (d > 0, lowest terms);                          *)
(*   - the result of np.exp on a rational: exp(arg), +inf above the        *)
(*     float64 range of exp, 0 below it;                                   *)
(*   - a sum of two such exponentials: exp(hi) * (1 + exp(gap)), gap <= 0, *)
(*     or exp(hi) alone when the smaller term is lost in the addition      *)
(*     (it is 0, or below half an ulp of the larger one);                  *)
(*   - a value  m + c * ln(1 + exp(gap))  with m, c, gap rational and      *)
(*     gap <= 0 (c = 0: the rational m), or +inf / -inf.                   *)
(* By the Lindemann-Weierstrass theorem  m + c*ln(1+exp(g)) with c # 0 is  *)
(* never rational, and two such values with the same c are equal only if   *)
(* m and g agree, so equality of these records is equality of the reals.   *)
(* Rounding in the last place is not modelled.                             *)
(***************************************************************************)
EXTENDS Integers, Sequences, FiniteSets, TLC

VARIABLES
    \* smooth_union_table.py, main(): its locals and the locals of the
    \* guarded smooth_union_exp call
    X, Y, k, naive, optimized, difference,
    d1_shifted, d2_shifted, log_arg, pc,
    \* one call of a formula of smooth_union_compare.py: the arguments,
    \* the function called ("none" before the call) and what it returned
    f_d1, f_d2, f_k, f_name, f_result,
    \* smooth_union_compare.py, the script: the global current_method,
    \* radius_slider.val, what the axes show (the title's method and radius,
    \* the plotted union), an exception raised by a callback, and where the
    \* script is ("setup" before the initial plot, "show" in plt.show())
    current_method, slider_val, plot, raised, gpc,
    \* history: the label of the latest radio click ("none" before the
    \* first), and the plot drawn before the current one
    clicked, prev_plot

tableVars == <<X, Y, k, naive, optimized, difference,
               d1_shifted, d2_shifted, log_arg, pc>>
fnVars == <<f_d1, f_d2, f_k, f_name, f_result>>
guiVars == <<current_method, slider_val, plot, raised, gpc, clicked, prev_plot>>
vars == <<tableVars, fnVars, guiVars>>

---------------------------------------------------------------------------
(* Rational arithmetic: Python / numpy  +  -  *  /  <  on floats.          *)

RECURSIVE GCD(_, _)
GCD(a, b) == IF b = 0 THEN a ELSE GCD(b, a % b)

IAbs(n) == IF n < 0 THEN -n ELSE n

Rat(n, d) ==
    LET g == GCD(IAbs(n), IAbs(d))
        s == IF d < 0 THEN -1 ELSE 1
    IN  <<s * (n \div g), s * (d \div g)>>

Zero == <<0, 1>>
One == <<1, 1>>

QNeg(p) == <<-p[1], p[2]>>

QAdd(p, q) ==
    LET g == GCD(p[2], q[2])
    IN  Rat(p[1] * (q[2] \div g) + q[1] * (p[2] \div g), (p[2] \div g) * q[2])

QSub(p, q) == QAdd(p, QNeg(q))

QMul(p, q) ==
    LET g1 == GCD(IAbs(p[1]), q[2])
        g2 == GCD(IAbs(q[1]), p[2])
    IN  Rat((p[1] \div g1) * (q[1] \div g2), (p[2] \div g2) * (q[2] \div g1))

QDiv(p, q) == QMul(p, Rat(q[2], q[1]))

QLt(p, q) ==
    LET g == GCD(p[2], q[2])
    IN  p[1] * (q[2] \div g) < q[1] * (p[2] \div g)

QLe(p, q) == ~QLt(q, p)

QAbs(p) == <<IAbs(p[1]), p[2]>>

QMin(p, q) == IF QLt(q, p) THEN q ELSE p

QMax(p, q) == IF QLt(p, q) THEN q ELSE p

---------------------------------------------------------------------------
(* Values  m + c * ln(1 + exp(gap)),  +inf,  -inf.                         *)

Fin(m, c, gap) ==
    [kind |-> "fin", m |-> m, c |-> c, gap |-> IF c = Zero THEN Zero ELSE gap]

FromRat(q) == Fin(q, Zero, Zero)

PosInf == [kind |-> "posinf", m |-> Zero, c |-> Zero, gap |-> Zero]
NegInf == [kind |-> "neginf", m |-> Zero, c |-> Zero, gap |-> Zero]
\* a finite value this form cannot write down; it is never 0
Other == [kind |-> "other", m |-> Zero, c |-> Zero, gap |-> Zero]

VNeg(v) ==
    CASE v.kind = "fin" -> Fin(QNeg(v.m), QNeg(v.c), v.gap)
      [] v.kind = "posinf" -> NegInf
      [] v.kind = "neginf" -> PosInf
      [] OTHER -> v

\* v / q, q a rational other than 0
VDiv(v, q) ==
    CASE v.kind = "fin" -> Fin(QDiv(v.m, q), QDiv(v.c, q), v.gap)
      [] v.kind = "other" -> v
      [] OTHER -> IF QLt(Zero, q) THEN v ELSE VNeg(v)

\* v + q, q a rational
VAdd(v, q) ==
    IF v.kind = "fin" THEN Fin(QAdd(v.m, q), v.c, v.gap) ELSE v

\* a - b
VSub(a, b) ==
    CASE a.kind = "fin" /\ b.kind = "fin" ->
            IF a.c = Zero \/ b.c = Zero \/ a.gap = b.gap
            THEN Fin(QSub(a.m, b.m), QSub(a.c, b.c),
                     IF a.c = Zero THEN b.gap ELSE a.gap)
            ELSE Other
      [] a.kind = "fin" /\ b.kind = "posinf" -> NegInf
      [] a.kind = "fin" /\ b.kind = "neginf" -> PosInf
      [] a.kind = "posinf" /\ b.kind # "posinf" -> PosInf
      [] a.kind = "neginf" /\ b.kind # "neginf" -> NegInf
      [] OTHER -> Other

\* ln 2 < 7/10, so 0 < ln(1 + exp(gap)) < 7/10 for gap <= 0
LnTwoHi == <<7, 10>>

\* np.abs of a value
VAbs(v) ==
    CASE v.kind = "posinf" \/ v.kind = "neginf" -> PosInf
      [] v.kind = "other" -> Other
      [] OTHER ->
            IF v.c = Zero THEN FromRat(QAbs(v.m))
            ELSE IF v.m = Zero THEN Fin(Zero, QAbs(v.c), v.gap)
            ELSE IF QLt(Zero, v.m) = QLt(Zero, v.c) THEN
                 Fin(QAbs(v.m), QAbs(v.c), v.gap)
            ELSE IF QLe(QMul(LnTwoHi, QAbs(v.c)), QAbs(v.m)) THEN
                 (IF QLt(Zero, v.m) THEN v ELSE VNeg(v))
            ELSE Other

---------------------------------------------------------------------------
(* numpy elementwise functions                                             *)

\* float64: exp(x) is +inf for x > 709.78 and 0 for x < -745.13
ExpMaxArg == <<7097, 10>>
ExpMinArg == <<-7451, 10>>
\* float64: 1 + t = 1 for t <= 2^-53, that is exp(g) is lost for g < -36.7
AbsorbGap == <<-367, 10>>

np_abs(x) == QAbs(x)
np_minimum(a, b) == QMin(a, b)
np_maximum(a, b) == QMax(a, b)

np_exp(x) ==
    IF QLt(ExpMaxArg, x) THEN [kind |-> "inf", arg |-> Zero]
    ELSE IF QLt(x, ExpMinArg) THEN [kind |-> "zero", arg |-> Zero]
    ELSE [kind |-> "exp", arg |-> x]

\* np.exp(..) + np.exp(..)
exp_add(e1, e2) ==
    IF e1.kind = "inf" \/ e2.kind = "inf" THEN
        [kind |-> "inf", hi |-> Zero, gap |-> Zero, two |-> FALSE]
    ELSE IF e1.kind = "zero" /\ e2.kind = "zero" THEN
        [kind |-> "zero", hi |-> Zero, gap |-> Zero, two |-> FALSE]
    ELSE IF e1.kind = "zero" THEN
        [kind |-> "fin", hi |-> e2.arg, gap |-> Zero, two |-> FALSE]
    ELSE IF e2.kind = "zero" THEN
        [kind |-> "fin", hi |-> e1.arg, gap |-> Zero, two |-> FALSE]
    ELSE
        LET hi == QMax(e1.arg, e2.arg)
            gap == QSub(QMin(e1.arg, e2.arg), hi)
        IN  IF QLt(gap, AbsorbGap)
            THEN [kind |-> "fin", hi |-> hi, gap |-> Zero, two |-> FALSE]
            ELSE [kind |-> "fin", hi |-> hi, gap |-> gap, two |-> TRUE]

\* np.log of such a sum: hi + ln(1 + exp(gap)); log(inf) = inf, log(0) = -inf
np_log(s) ==
    CASE s.kind = "inf" -> PosInf
      [] s.kind = "zero" -> NegInf
      [] OTHER -> Fin(s.hi, IF s.two THEN One ELSE Zero, s.gap)

np_where(c, a, b) == IF c THEN a ELSE b

---------------------------------------------------------------------------
(* smooth_union_table.py                                                   *)

Two == <<2, 1>>

\* mutant: the mask taken with >= instead of >
table_mask_ge(diff, kk) == QLe(QDiv(Two, kk), diff)

\* mask = diff > 2.0/k
table_mask(diff, kk) == QLt(QDiv(Two, kk), diff)

\* mutant: the distances are not shifted
table_shift_none(d, minDist) == d

\* d1_shifted = d1 - minDist
table_shift(d, minDist) == QSub(d, minDist)

\* smooth = -np.log(np.exp(-k*d1_shifted) + np.exp(-k*d2_shifted))/k + minDist
table_log_arg(s1, s2, kk) ==
    exp_add(np_exp(QMul(QNeg(kk), s1)), np_exp(QMul(QNeg(kk), s2)))

\* mutant: the minimum is not added back
table_smooth_no_min(s1, s2, kk, minDist) ==
    VDiv(VNeg(np_log(table_log_arg(s1, s2, kk))), kk)

table_smooth(s1, s2, kk, minDist) ==
    VAdd(VDiv(VNeg(np_log(table_log_arg(s1, s2, kk))), kk), minDist)

\* the locals of smooth_union_exp for one element of d1, d2
table_exp_locals(a, b, kk) ==
    LET diff == np_abs(QSub(a, b))
        mask == table_mask(diff, kk)
        minDist == np_minimum(a, b)
        s1 == table_shift(a, minDist)
        s2 == table_shift(b, minDist)
        smooth == table_smooth(s1, s2, kk, minDist)
        simple == FromRat(minDist)
    IN  [mask |-> mask, d1_shifted |-> s1, d2_shifted |-> s2,
         log_arg |-> table_log_arg(s1, s2, kk),
         result |-> np_where(mask, simple, smooth)]

table_smooth_union_exp(d1, d2, kk) ==
    [i \in DOMAIN d1 |-> table_exp_locals(d1[i], d2[i], kk).result]

naive_elem(a, b, kk) ==
    VDiv(VNeg(np_log(exp_add(np_exp(QMul(QNeg(kk), a)),
                             np_exp(QMul(QNeg(kk), b))))), kk)

naive_smooth_union(d1, d2, kk) ==
    [i \in DOMAIN d1 |-> naive_elem(d1[i], d2[i], kk)]

\* np.linspace(lo, hi, n), n >= 2
linspace(lo, hi, n) ==
    [i \in 1..n |-> QAdd(lo, QDiv(QMul(QSub(hi, lo), <<i - 1, 1>>), <<n - 1, 1>>))]

\* np.meshgrid(x, y), each array flattened row by row
meshgrid_X(x, y) ==
    [e \in 1..(Len(x) * Len(y)) |-> x[((e - 1) % Len(x)) + 1]]
meshgrid_Y(x, y) ==
    [e \in 1..(Len(x) * Len(y)) |-> y[((e - 1) \div Len(x)) + 1]]

\* points per axis of the grids (100 in main(), 200 in the comparison script)
GridN == 2
\* length of the arrays the functions are applied to besides the grid
TableLen == 2

\* distances and k drawn for a call: |d1-d2| = 2/k occurs (k = 1 and k = 20),
\* and k = 400 takes exp(-k*d) out of the float range
TableDist == {<<-2, 1>>, <<0, 1>>, <<1, 10>>, <<2, 1>>}
TableK == {<<1, 1>>, <<20, 1>>, <<400, 1>>}
main_k == <<20, 1>>
main_x == linspace(<<-2, 1>>, <<2, 1>>, GridN)

TableArrays == [1..TableLen -> TableDist]

NoPlot == [method |-> "none", radius |-> Zero, union |-> <<>>]

GuiIdle ==
    /\ current_method = "none"
    /\ slider_val = One
    /\ plot = NoPlot
    /\ raised = "none"
    /\ gpc = "idle"
    /\ clicked = "none"
    /\ prev_plot = NoPlot

FnIdle ==
    /\ f_d1 = <<>>
    /\ f_d2 = <<>>
    /\ f_k = One
    /\ f_name = "none"
    /\ f_result = <<>>

TableInit ==
    /\ \/ /\ k = main_k
          /\ X = meshgrid_X(main_x, main_x)
          /\ Y = meshgrid_Y(main_x, main_x)
       \/ /\ k \in TableK
          /\ X \in TableArrays
          /\ Y \in TableArrays
    /\ naive = <<>>
    /\ optimized = <<>>
    /\ difference = <<>>
    /\ d1_shifted = <<>>
    /\ d2_shifted = <<>>
    /\ log_arg = <<>>
    /\ pc = "start"
    /\ FnIdle
    /\ GuiIdle

\* naive = naive_smooth_union(X, Y, k)
MainNaive ==
    /\ pc = "start"
    /\ naive' = naive_smooth_union(X, Y, k)
    /\ pc' = "naive"
    /\ UNCHANGED <<X, Y, k, optimized, difference, d1_shifted, d2_shifted, log_arg>>
    /\ UNCHANGED <<fnVars, guiVars>>

\* optimized = smooth_union_exp(X, Y, k)
MainOptimized ==
    /\ pc = "naive"
    /\ optimized' = table_smooth_union_exp(X, Y, k)
    /\ d1_shifted' = [i \in DOMAIN X |-> table_exp_locals(X[i], Y[i], k).d1_shifted]
    /\ d2_shifted' = [i \in DOMAIN X |-> table_exp_locals(X[i], Y[i], k).d2_shifted]
    /\ log_arg' = [i \in DOMAIN X |-> table_exp_locals(X[i], Y[i], k).log_arg]
    /\ pc' = "optimized"
    /\ UNCHANGED <<X, Y, k, naive, difference>>
    /\ UNCHANGED <<fnVars, guiVars>>

\* difference = np.abs(optimized - naive)
MainDifference ==
    /\ pc = "optimized"
    /\ difference' = [i \in DOMAIN X |-> VAbs(VSub(optimized[i], naive[i]))]
    /\ pc' = "done"
    /\ UNCHANGED <<X, Y, k, naive, optimized, d1_shifted, d2_shifted, log_arg>>
    /\ UNCHANGED <<fnVars, guiVars>>

TableNext == MainNaive \/ MainOptimized \/ MainDifference

SpecTable == TableInit /\ [][TableNext]_vars

---------------------------------------------------------------------------
(* smooth_union_compare.py: the five formulas                              *)

\* np.all over an array of booleans
np_all(bs) == \A i \in DOMAIN bs : bs[i]

\* -np.log(np.exp(-k*d1) + np.exp(-k*d2))/k for one element
exp_blend(a, b, kk) ==
    VDiv(VNeg(np_log(exp_add(np_exp(QMul(QNeg(kk), a)),
                             np_exp(QMul(QNeg(kk), b))))), kk)

\* np.all(minDist > 1.0/k * 2.0)
exp_all_far(d1, d2, kk) ==
    np_all([i \in DOMAIN d1 |->
               QLt(QMul(QDiv(One, kk), Two), np_minimum(d1[i], d2[i]))])

smooth_union_exp(d1, d2, kk) ==
    IF exp_all_far(d1, d2, kk)
    THEN [i \in DOMAIN d1 |-> FromRat(np_minimum(d1[i], d2[i]))]
    ELSE [i \in DOMAIN d1 |-> exp_blend(d1[i], d2[i], kk)]

\* mutant: h is not clamped at 0
poly_h_noclamp(a, b, kk) == QDiv(QSub(kk, np_abs(QSub(a, b))), kk)

\* h = np.maximum(k - np.abs(d1 - d2), 0.0) / k
poly_h(a, b, kk) == QDiv(np_maximum(QSub(kk, np_abs(QSub(a, b))), Zero), kk)

poly_elem(a, b, kk) ==
    LET h == poly_h(a, b, kk)
    IN  QSub(np_minimum(a, b), QDiv(QMul(QMul(QMul(h, h), h), kk), <<6, 1>>))

smooth_union_poly(d1, d2, kk) ==
    [i \in DOMAIN d1 |-> FromRat(poly_elem(d1[i], d2[i], kk))]

\* mutant: h is not clamped at 0
quad_h_noclamp(a, b, kk) == QDiv(QSub(kk, np_abs(QSub(a, b))), kk)

\* h = np.maximum(0.0, k - np.abs(d1 - d2)) / k
quad_h(a, b, kk) == QDiv(np_maximum(Zero, QSub(kk, np_abs(QSub(a, b)))), kk)

quad_elem(a, b, kk) ==
    LET h == quad_h(a, b, kk)
    IN  QSub(np_minimum(a, b), QDiv(QMul(QMul(h, h), kk), <<4, 1>>))

smooth_union_quad(d1, d2, kk) ==
    [i \in DOMAIN d1 |-> FromRat(quad_elem(d1[i], d2[i], kk))]

eps == <<1, 1000000>>

\* np.power(x, p), kept as the term x^p
np_power(x, p) == [base |-> x, exp |-> p]

\* np.power((a * b)/(a + b), 1.0/k) with a = u^k, b = v^k, kept as the term
\* ((u^k * v^k)/(u^k + v^k))^(1/k): m holds u, c holds v, gap holds 1/k
power_elem(d1e, d2e, kk) ==
    LET a == np_power(QAdd(np_abs(d1e), eps), kk)
        b == np_power(QAdd(np_abs(d2e), eps), kk)
    IN  [kind |-> "pow", m |-> a.base, c |-> b.base, gap |-> QDiv(One, a.exp)]

smooth_union_power(d1, d2, kk) ==
    [i \in DOMAIN d1 |-> power_elem(d1[i], d2[i], kk)]

scale == <<10, 1>>

\* mutant: the result is divided by k only, not unscaled
scaled_exp_elem_unscaled(a, b, kk) ==
    VDiv(VNeg(np_log(exp_add(np_exp(QMul(QNeg(kk), QMul(scale, a))),
                             np_exp(QMul(QNeg(kk), QMul(scale, b)))))),
         kk)

scaled_exp_elem(a, b, kk) ==
    VDiv(VNeg(np_log(exp_add(np_exp(QMul(QNeg(kk), QMul(scale, a))),
                             np_exp(QMul(QNeg(kk), QMul(scale, b)))))),
         QMul(kk, scale))

smooth_union_scaled_exp(d1, d2, kk) ==
    [i \in DOMAIN d1 |-> scaled_exp_elem(d1[i], d2[i], kk)]

\* the keys of union_methods, in the dict's order
union_methods_keys ==
    <<"Exponential", "Polynomial", "Quadratic", "Power", "Scaled Exp">>

\* union_methods[method](d1, d2, k)
union_methods(method, d1, d2, kk) ==
    CASE method = "Exponential" -> smooth_union_exp(d1, d2, kk)
      [] method = "Polynomial" -> smooth_union_poly(d1, d2, kk)
      [] method = "Quadratic" -> smooth_union_quad(d1, d2, kk)
      [] method = "Power" -> smooth_union_power(d1, d2, kk)
      [] method = "Scaled Exp" -> smooth_union_scaled_exp(d1, d2, kk)

\* length of the arrays a formula is applied to
FnLen == 2
FnDist == {<<-1, 1>>, <<0, 1>>, <<1, 2>>, <<3, 1>>}
FnK == {<<1, 1>>, <<2, 1>>, <<4, 1>>, <<100, 1>>}
FnArrays == [1..FnLen -> FnDist]

TableIdle ==
    /\ X = <<>> /\ Y = <<>> /\ k = One
    /\ naive = <<>> /\ optimized = <<>> /\ difference = <<>>
    /\ d1_shifted = <<>> /\ d2_shifted = <<>> /\ log_arg = <<>>
    /\ pc = "idle"

FnInit ==
    /\ f_d1 \in FnArrays
    /\ f_d2 \in FnArrays
    /\ f_k \in FnK
    /\ f_name = "none"
    /\ f_result = <<>>
    /\ TableIdle
    /\ GuiIdle

Call(method) ==
    /\ f_name = "none"
    /\ f_name' = method
    /\ f_result' = union_methods(method, f_d1, f_d2, f_k)
    /\ UNCHANGED <<f_d1, f_d2, f_k>>
    /\ UNCHANGED <<tableVars, guiVars>>

CallExp == Call("Exponential")
CallPoly == Call("Polynomial")
CallQuad == Call("Quadratic")
CallPower == Call("Power")
CallScaledExp == Call("Scaled Exp")

FnNext == CallExp \/ CallPoly \/ CallQuad \/ CallPower \/ CallScaledExp

SpecFn == FnInit /\ [][FnNext]_vars

---------------------------------------------------------------------------
(* smooth_union_compare.py: the script                                     *)

Half == <<1, 2>>

sdf_square(x, y, center, size) ==
    LET dx == QSub(QAbs(QSub(x, center[1])), QMul(size, Half))
        dy == QSub(QAbs(QSub(y, center[2])), QMul(size, Half))
    IN  np_maximum(dx, dy)

square1_pos == << <<-2, 5>>, <<-3, 10>> >>
square2_pos == << <<2, 5>>, <<3, 10>> >>

grid_x == linspace(<<-2, 1>>, <<2, 1>>, GridN)
grid_X == meshgrid_X(grid_x, grid_x)
grid_Y == meshgrid_Y(grid_x, grid_x)

square1 == [e \in DOMAIN grid_X |-> sdf_square(grid_X[e], grid_Y[e], square1_pos, One)]
square2 == [e \in DOMAIN grid_X |-> sdf_square(grid_X[e], grid_Y[e], square2_pos, One)]

initial_method == "Exponential"
initial_radius == <<1, 2>>

valmin == <<1, 100>>
valmax == <<1, 1>>

\* Slider: a position dragged to is kept inside [valmin, valmax]
slider_clip(v) == QMin(QMax(v, valmin), valmax)
SliderPositions ==
    {<<0, 1>>, <<1, 100>>, <<1, 4>>, <<1, 2>>, <<1, 1>>, <<2, 1>>}

\* mutant: a label list written out by hand, with a label that is no key
radio_labels_stale ==
    <<"Exponential", "Polynomial", "Quadratic", "Power", "Scaled Exp", "Cubic">>

\* RadioButtons(labels=list(union_methods.keys()))
radio_labels == union_methods_keys

Range(f) == {f[i] : i \in DOMAIN f}

\* update_plot(radius), called once current_method' is settled
update_plot(radius) ==
    IF current_method' \notin Range(union_methods_keys) THEN
        /\ raised' = "KeyError"
        /\ UNCHANGED <<plot, prev_plot>>
    ELSE IF radius = Zero THEN
        /\ raised' = "ZeroDivisionError"
        /\ UNCHANGED <<plot, prev_plot>>
    ELSE
        /\ plot' = [method |-> current_method',
                    radius |-> radius,
                    union |-> union_methods(current_method', square1, square2,
                                            QDiv(One, radius))]
        /\ prev_plot' = plot
        /\ UNCHANGED raised

update_radius(val) ==
    /\ UNCHANGED current_method
    /\ update_plot(slider_val')

\* mutant: the clicked label is not stored
update_method_nostore(label) ==
    /\ UNCHANGED current_method
    /\ update_plot(slider_val)

update_method(label) ==
    /\ current_method' = label
    /\ update_plot(slider_val)

GuiInit ==
    /\ current_method = initial_method
    /\ slider_val = initial_radius
    /\ plot = NoPlot
    /\ raised = "none"
    /\ gpc = "setup"
    /\ clicked = "none"
    /\ prev_plot = NoPlot
    /\ TableIdle
    /\ FnIdle

\* update_plot(initial_radius); plt.show()
InitialPlot ==
    /\ gpc = "setup"
    /\ UNCHANGED current_method
    /\ update_plot(initial_radius)
    /\ gpc' = "show"
    /\ UNCHANGED <<slider_val, clicked>>
    /\ UNCHANGED <<tableVars, fnVars>>

\* radius_slider.on_changed(update_radius)
SliderChanged ==
    /\ gpc = "show"
    /\ \E v \in SliderPositions :
          /\ slider_val' = slider_clip(v)
          /\ update_radius(slider_val')
    /\ UNCHANGED <<gpc, clicked>>
    /\ UNCHANGED <<tableVars, fnVars>>

\* radio.on_clicked(update_method)
RadioClicked ==
    /\ gpc = "show"
    /\ \E i \in DOMAIN radio_labels :
          /\ clicked' = radio_labels[i]
          /\ update_method(radio_labels[i])
    /\ UNCHANGED <<gpc, slider_val>>
    /\ UNCHANGED <<tableVars, fnVars>>

GuiNext == InitialPlot \/ SliderChanged \/ RadioClicked

SpecCompare == GuiInit /\ [][GuiNext]_vars

---------------------------------------------------------------------------
(* Claims about smooth_union_table.py                                      *)

Called == pc \in {"optimized", "done"}

Diff(i) == QAbs(QSub(X[i], Y[i]))
Far(i) == QLt(Two, QMul(k, Diff(i)))
MinXY(i) == IF QLt(Y[i], X[i]) THEN Y[i] ELSE X[i]

\* min - ln(1 + exp(-k*|d1-d2|)) / k : the blend written from the minimum
BlendFromMin(i) ==
    Fin(MinXY(i), QDiv(<<-1, 1>>, k), QNeg(QMul(k, Diff(i))))

\* C1: smooth_union_exp of smooth_union_table.py returns, per element, exactly
\* min(d1,d2) where |d1-d2| > 2/k (strictly) and the shifted blend
\* -ln(exp(-k*(d1-m)) + exp(-k*(d2-m)))/k + m everywhere else, the elements
\* with |d1-d2| = 2/k included.
C1_GuardSelects ==
    Called =>
        \A i \in DOMAIN X :
            optimized[i] = IF Far(i) THEN FromRat(MinXY(i)) ELSE BlendFromMin(i)

\* C1 witness: one call with an element exactly at |d1-d2| = 2/k that got the
\* blend and an element beyond it that got the plain minimum.
C1_Witness ==
    /\ Called
    /\ \E i, j \in DOMAIN X :
          /\ QMul(k, Diff(i)) = Two
          /\ optimized[i].c # Zero
          /\ Far(j)
          /\ optimized[j] = FromRat(MinXY(j))

InRange(x) == QLe(ExpMinArg, x) /\ QLe(x, ExpMaxArg)
NaiveInRange(i) ==
    InRange(QMul(QNeg(k), X[i])) /\ InRange(QMul(QNeg(k), Y[i]))

\* C2 (as stated): the guarded and the naive function return the same value
\* for every d1, d2, k > 0, so main()'s Absolute Difference is 0 everywhere.
C2_Identical ==
    pc = "done" =>
        \A i \in DOMAIN X :
            optimized[i] = naive[i] /\ difference[i] = FromRat(Zero)

\* C2 (amended): on the elements with |d1-d2| <= 2/k whose naive exponentials
\* stay inside the float range the two functions return the same value and
\* the difference is 0; on the elements with |d1-d2| > 2/k the guarded
\* function returns min(d1,d2) and the naive one min - ln(1+exp(-k|d1-d2|))/k
\* (min itself once the logarithm's term is below float resolution).
C2_IdenticalNearOnly ==
    pc = "done" =>
        \A i \in DOMAIN X :
            NaiveInRange(i) =>
                IF Far(i)
                THEN /\ optimized[i] = FromRat(MinXY(i))
                     /\ naive[i] =
                           IF QLt(QNeg(QMul(k, Diff(i))), AbsorbGap)
                           THEN FromRat(MinXY(i)) ELSE BlendFromMin(i)
                ELSE /\ optimized[i] = naive[i]
                     /\ difference[i] = FromRat(Zero)

\* C2 witness: a finished run with an element of distinct distances inside
\* the blend range (difference 0) and an element outside it whose difference
\* is a finite value other than 0.
C2_Witness ==
    /\ pc = "done"
    /\ \E i, j \in DOMAIN X :
          /\ ~Far(i) /\ X[i] # Y[i] /\ NaiveInRange(i)
          /\ difference[i] = FromRat(Zero)
          /\ Far(j) /\ difference[j].kind = "fin"
          /\ difference[j] # FromRat(Zero)

\* bounds of exp: max(0, 1+x) <= exp(x), and exp(x) <= 1/(1-x) for x < 1
ExpLo(x) == QMax(Zero, QAdd(One, x))
ExpHi(x) == QDiv(One, QSub(One, x))
SumLo(s) == QMul(ExpLo(s.hi), IF s.two THEN QAdd(One, ExpLo(s.gap)) ELSE One)
SumHi(s) == QMul(ExpHi(s.hi), IF s.two THEN QAdd(One, ExpHi(s.gap)) ELSE One)
SumIn12(s) ==
    /\ s.kind = "fin"
    /\ QLt(s.hi, One)
    /\ QLe(One, SumLo(s))
    /\ QLe(SumHi(s), Two)

\* C3: in the guarded smooth_union_exp both exponent arguments
\* -k*(d1-min) and -k*(d2-min) are <= 0 and one of them is 0, for every
\* element (masked or not), so the logarithm's argument is in [1, 2]: it
\* neither overflows nor reaches 0.
C3_ShiftedExponents ==
    Called =>
        \A i \in DOMAIN X :
            LET a1 == QMul(QNeg(k), d1_shifted[i])
                a2 == QMul(QNeg(k), d2_shifted[i])
            IN  /\ QLe(a1, Zero)
                /\ QLe(a2, Zero)
                /\ a1 = Zero \/ a2 = Zero
                /\ SumIn12(log_arg[i])

\* C3 witness: a finished run with a masked element and an element on which
\* the unshifted exponential overflows (the naive result is -inf).
C3_Witness ==
    /\ pc = "done"
    /\ \E i, j \in DOMAIN X :
          /\ Far(i) /\ X[i] # X[j]
          /\ QLt(ExpMaxArg, QMul(QNeg(k), X[j]))
          /\ naive[j] = NegInf
          /\ optimized[j].kind = "fin"

---------------------------------------------------------------------------
(* Claims about the formulas of smooth_union_compare.py                    *)

FDiff(i) == QAbs(QSub(f_d1[i], f_d2[i]))
FMin(i) == IF QLt(f_d2[i], f_d1[i]) THEN f_d2[i] ELSE f_d1[i]
FFar(i) == QLt(Two, QMul(f_k, FDiff(i)))

Cube(q) == QMul(q, QMul(q, q))
Square(q) == QMul(q, q)
\* max(k - |d1-d2|, 0)
Clamped(i) ==
    IF QLt(FDiff(i), f_k) THEN QSub(f_k, FDiff(i)) ELSE Zero

\* C6: smooth_union_poly(d1, d2, k) = min(d1,d2) - h^3 * k/6 with
\* h = max(k-|d1-d2|, 0)/k; it is min(d1,d2) whenever |d1-d2| >= k, never
\* above min(d1,d2), never below min(d1,d2) - k/6, and equal to
\* min(d1,d2) - k/6 exactly when d1 = d2.
C6_PolyFormula ==
    f_name = "Polynomial" =>
        \A i \in DOMAIN f_d1 :
            LET r == f_result[i]
                floor == QSub(FMin(i), QDiv(f_k, <<6, 1>>))
            IN  /\ r = FromRat(QSub(FMin(i),
                           QDiv(Cube(Clamped(i)),
                                QMul(<<6, 1>>, Square(f_k)))))
                /\ QLe(f_k, FDiff(i)) => r = FromRat(FMin(i))
                /\ QLe(r.m, FMin(i))
                /\ QLe(floor, r.m)
                /\ (r.m = floor) <=> (f_d1[i] = f_d2[i])

\* C6 witness: one call of smooth_union_poly with an element at
\* |d1-d2| >= k, an element with d1 = d2 and an element strictly between.
C6_Witness ==
    /\ f_name = "Polynomial"
    /\ \E i, j \in DOMAIN f_d1 :
          /\ QLe(f_k, FDiff(i)) /\ f_result[i] = FromRat(FMin(i))
          /\ QLt(Zero, FDiff(j)) /\ QLt(FDiff(j), f_k)
          /\ QLt(f_result[j].m, FMin(j))

\* C7: smooth_union_quad(d1, d2, k) = min(d1,d2) - h^2 * k/4 with
\* h = max(k-|d1-d2|, 0)/k; it is min(d1,d2) whenever |d1-d2| >= k, never
\* above min(d1,d2), never below min(d1,d2) - k/4, and equal to
\* min(d1,d2) - k/4 exactly when d1 = d2.
C7_QuadFormula ==
    f_name = "Quadratic" =>
        \A i \in DOMAIN f_d1 :
            LET r == f_result[i]
                floor == QSub(FMin(i), QDiv(f_k, <<4, 1>>))
            IN  /\ r = FromRat(QSub(FMin(i),
                           QDiv(Square(Clamped(i)), QMul(<<4, 1>>, f_k))))
                /\ QLe(f_k, FDiff(i)) => r = FromRat(FMin(i))
                /\ QLe(r.m, FMin(i))
                /\ QLe(floor, r.m)
                /\ (r.m = floor) <=> (f_d1[i] = f_d2[i])

\* C7 witness: one call of smooth_union_quad with an element at
\* |d1-d2| >= k and an element with d1 = d2 at the floor min - k/4.
C7_Witness ==
    /\ f_name = "Quadratic"
    /\ \E i, j \in DOMAIN f_d1 :
          /\ QLe(f_k, FDiff(i)) /\ f_result[i] = FromRat(FMin(i))
          /\ f_d1[j] = f_d2[j]
          /\ f_result[j].m = QSub(FMin(j), QDiv(f_k, <<4, 1>>))

Ten == <<10, 1>>
\* both exponentials of the scaled formula are kept in the sum
ScaledResolved(i) ==
    exp_add(np_exp(QMul(QNeg(f_k), QMul(Ten, f_d1[i]))),
            np_exp(QMul(QNeg(f_k), QMul(Ten, f_d2[i])))).two

\* C8: smooth_union_scaled_exp(d1, d2, k) = E(10*d1, 10*d2, k)/10 with
\* E(a,b,k) = -ln(exp(-k*a) + exp(-k*b))/k, which is E(d1, d2, 10*k); it has
\* no plain-minimum branch: where smooth_union_exp returns the plain minimum
\* for the same arguments, it still returns the blend.
C8_ScaledExp ==
    f_name = "Scaled Exp" =>
        \A i \in DOMAIN f_d1 :
            /\ f_result[i] =
                  VDiv(exp_blend(QMul(Ten, f_d1[i]), QMul(Ten, f_d2[i]), f_k), Ten)
            /\ f_result[i] = exp_blend(f_d1[i], f_d2[i], QMul(Ten, f_k))
            /\ (exp_all_far(f_d1, f_d2, f_k) /\ ScaledResolved(i)) =>
                  /\ smooth_union_exp(f_d1, f_d2, f_k)[i] = FromRat(FMin(i))
                  /\ f_result[i] # FromRat(FMin(i))

\* C8 witness: a call of smooth_union_scaled_exp on arguments for which
\* smooth_union_exp takes its plain-minimum branch, with a blended element.
C8_Witness ==
    /\ f_name = "Scaled Exp"
    /\ exp_all_far(f_d1, f_d2, f_k)
    /\ \E i \in DOMAIN f_d1 :
          /\ ScaledResolved(i)
          /\ f_result[i].kind = "fin" /\ f_result[i].c # Zero

---------------------------------------------------------------------------
(* Claims about the script of smooth_union_compare.py                      *)

SquareMin(i) == IF QLt(square2[i], square1[i]) THEN square2[i] ELSE square1[i]

\* |union[i] - min(d1[i], d2[i])|
Deviation(p, i) == VAbs(VSub(p.union[i], FromRat(SquareMin(i))))

\* For two values u = |..|, v = |..|: "le" when u <= v is certain, "gt"
\* when u > v is certain, "unknown" otherwise.  ln(1 + exp(g)) grows with g.
Compare(u, v) ==
    LET known(w) == /\ w.kind = "fin"
                    /\ QLe(Zero, w.m)
                    /\ QLe(Zero, w.c)
        termLe(a, b) == \/ a.c = Zero
                        \/ /\ b.c # Zero
                           /\ QLe(a.c, b.c)
                           /\ QLe(a.gap, b.gap)
    IN  CASE u.kind = "posinf" /\ v.kind = "posinf" -> "le"
          [] u.kind = "posinf" /\ v.kind = "fin" -> "gt"
          [] u.kind = "fin" /\ v.kind = "posinf" -> "le"
          [] known(u) /\ known(v) ->
                IF QLe(u.m, v.m) /\ termLe(u, v) THEN "le"
                ELSE IF QLe(v.m, u.m) /\ termLe(v, u) THEN "gt"
                ELSE "unknown"
          [] OTHER -> "unknown"

\* C5 (as stated): for every selectable method a larger k blends more
\* sharply: of two plots drawn with the same method and k1 < k2 (k =
\* 1/radius), the later deviates from min(d1,d2) by no more than the earlier
\* at every point, and deviates only where the earlier one did.
C5_LargerKSharper ==
    ( /\ gpc = "show"
      /\ prev_plot # NoPlot
      /\ prev_plot.method = plot.method
      /\ QLt(QDiv(One, prev_plot.radius), QDiv(One, plot.radius)) ) =>
        \A i \in DOMAIN square1 :
            /\ Compare(Deviation(plot, i), Deviation(prev_plot, i)) # "gt"
            /\ plot.union[i] # FromRat(SquareMin(i))
                  => prev_plot.union[i] # FromRat(SquareMin(i))

LatestMethod == IF clicked = "none" THEN "Exponential" ELSE clicked

\* C9: once the initial plot is drawn, and after any sequence of slider and
\* radio events, the plot shown was computed with the method of the latest
\* radio click ('Exponential' before the first) and k = 1/radius for the
\* slider's current value; current_method holds that method.
C9_PlotFollowsControls ==
    gpc = "show" =>
        /\ current_method = LatestMethod
        /\ plot.method = LatestMethod
        /\ plot.radius = slider_val
        /\ plot.union =
              union_methods(LatestMethod, square1, square2, QDiv(One, slider_val))

\* C9 witness: a plot drawn after a radio click on another method and a
\* slider move away from the initial radius.
C9_Witness ==
    /\ gpc = "show"
    /\ clicked = "Quadratic"
    /\ slider_val = <<1, 4>>
    /\ plot.method = "Quadratic"
    /\ prev_plot.method = "Quadratic"
    /\ prev_plot.radius = initial_radius

\* C10: current_method is always a key of union_methods (the radio labels
\* are exactly the keys), no callback raises, and the radius of every plot
\* drawn is in [0.01, 1.0], so k = 1/radius is defined with 1 <= k <= 100.
C10_LookupAndRadius ==
    /\ Range(radio_labels) = Range(union_methods_keys)
    /\ current_method \in Range(union_methods_keys)
    /\ raised = "none"
    /\ gpc = "show" =>
          /\ QLe(<<1, 100>>, plot.radius)
          /\ QLe(plot.radius, One)
          /\ plot.radius # Zero
          /\ QLe(One, QDiv(One, plot.radius))
          /\ QLe(QDiv(One, plot.radius), <<100, 1>>)

\* C10 witness: a plot drawn at the slider's lower end (k = 100) with the
\* last of the five methods, after a plot at the upper end (k = 1).
C10_Witness ==
    /\ gpc = "show"
    /\ plot.radius = <<1, 100>>
    /\ plot.method = "Scaled Exp"
    /\ prev_plot.radius = One

===========================================================================
